---- MODULE Spec2Model ----
(***************************************************************************)
(* Pradon bot (main.py): three stream watchers (posts, comments, inbox     *)
(* mentions), each wrapped by the restart decorator, replying with a       *)
(* random quote when the keyword policy triggers.                          *)
(*                                                                         *)
(* A text is a sequence of characters; a character is a one-character     *)
(* string, or "U+hhhh" for a character a TLA+ string cannot hold.          *)
(***************************************************************************)
EXTENDS Integers, Sequences, FiniteSets, TLC

(***************************************************************************)
(* Module constants of main.py                                             *)
(***************************************************************************)
\* string.ascii_uppercase / string.ascii_lowercase: the pairs str.lower() maps
ascii_uppercase == <<"A","B","C","D","E","F","G","H","I","J","K","L","M","N","O","P","Q","R","S","T","U","V","W","X","Y","Z">>

ascii_lowercase == <<"a","b","c","d","e","f","g","h","i","j","k","l","m","n","o","p","q","r","s","t","u","v","w","x","y","z">>

\* string.punctuation, the characters standardize_text deletes
punctuation == <<"!","\"","#","$","%","&","'","(",")","*","+",",","-",".","/",":",";","<","=",">","?","@","[","\\","]","^","_","U+0060","{","|","}","~">>

QUOTES ==
  << (* We are the creators of our own reality, the architects of our own destiny. *)
     <<"W","e"," ","a","r","e"," ","t","h","e"," ","c","r","e","a","t","o","r","s"," ","o","f"," ","o","u","r"," ","o","w","n"," ","r","e","a","l","i","t","y",","," ","t","h","e"," ","a","r","c","h","i","t","e","c","t","s"," ","o","f"," ","o","u","r"," ","o","w","n"," ","d","e","s","t","i","n","y",".">>,
     (* The soul, like the mind, is never truly free until it has reconciled itself with the uncertainties of existence. *)
     <<"T","h","e"," ","s","o","u","l",","," ","l","i","k","e"," ","t","h","e"," ","m","i","n","d",","," ","i","s"," ","n","e","v","e","r"," ","t","r","u","l","y"," ","f","r","e","e"," ","u","n","t","i","l"," ","i","t"," ","h","a","s"," ","r","e","c","o","n","c","i","l","e","d"," ","i","t","s","e","l","f"," ","w","i","t","h"," ","t","h","e"," ","u","n","c","e","r","t","a","i","n","t","i","e","s"," ","o","f"," ","e","x","i","s","t","e","n","c","e",".">>,
     (* In every moment, we must choose between despair and hope, for it is only through choice that we find meaning. *)
     <<"I","n"," ","e","v","e","r","y"," ","m","o","m","e","n","t",","," ","w","e"," ","m","u","s","t"," ","c","h","o","o","s","e"," ","b","e","t","w","e","e","n"," ","d","e","s","p","a","i","r"," ","a","n","d"," ","h","o","p","e",","," ","f","o","r"," ","i","t"," ","i","s"," ","o","n","l","y"," ","t","h","r","o","u","g","h"," ","c","h","o","i","c","e"," ","t","h","a","t"," ","w","e"," ","f","i","n","d"," ","m","e","a","n","i","n","g",".">>,
     (* The true path to wisdom is not through reason alone, but through the balance of emotion and intellect. *)
     <<"T","h","e"," ","t","r","u","e"," ","p","a","t","h"," ","t","o"," ","w","i","s","d","o","m"," ","i","s"," ","n","o","t"," ","t","h","r","o","u","g","h"," ","r","e","a","s","o","n"," ","a","l","o","n","e",","," ","b","u","t"," ","t","h","r","o","u","g","h"," ","t","h","e"," ","b","a","l","a","n","c","e"," ","o","f"," ","e","m","o","t","i","o","n"," ","a","n","d"," ","i","n","t","e","l","l","e","c","t",".">>,
     (* Life does not follow the rules of logic; it unfolds in mysterious and unpredictable ways, challenging us to adapt. *)
     <<"L","i","f","e"," ","d","o","e","s"," ","n","o","t"," ","f","o","l","l","o","w"," ","t","h","e"," ","r","u","l","e","s"," ","o","f"," ","l","o","g","i","c",";"," ","i","t"," ","u","n","f","o","l","d","s"," ","i","n"," ","m","y","s","t","e","r","i","o","u","s"," ","a","n","d"," ","u","n","p","r","e","d","i","c","t","a","b","l","e"," ","w","a","y","s",","," ","c","h","a","l","l","e","n","g","i","n","g"," ","u","s"," ","t","o"," ","a","d","a","p","t",".">>,
     (* To be human is to be constantly in conflict with the world, yet also to find beauty within that struggle. *)
     <<"T","o"," ","b","e"," ","h","u","m","a","n"," ","i","s"," ","t","o"," ","b","e"," ","c","o","n","s","t","a","n","t","l","y"," ","i","n"," ","c","o","n","f","l","i","c","t"," ","w","i","t","h"," ","t","h","e"," ","w","o","r","l","d",","," ","y","e","t"," ","a","l","s","o"," ","t","o"," ","f","i","n","d"," ","b","e","a","u","t","y"," ","w","i","t","h","i","n"," ","t","h","a","t"," ","s","t","r","u","g","g","l","e",".">>,
     (* It is not enough to seek answers; we must embrace the questions that lead us to deeper understanding. *)
     <<"I","t"," ","i","s"," ","n","o","t"," ","e","n","o","u","g","h"," ","t","o"," ","s","e","e","k"," ","a","n","s","w","e","r","s",";"," ","w","e"," ","m","u","s","t"," ","e","m","b","r","a","c","e"," ","t","h","e"," ","q","u","e","s","t","i","o","n","s"," ","t","h","a","t"," ","l","e","a","d"," ","u","s"," ","t","o"," ","d","e","e","p","e","r"," ","u","n","d","e","r","s","t","a","n","d","i","n","g",".">>,
     (* Freedom is not given to us, it is something we must claim for ourselves. *)
     <<"F","r","e","e","d","o","m"," ","i","s"," ","n","o","t"," ","g","i","v","e","n"," ","t","o"," ","u","s",","," ","i","t"," ","i","s"," ","s","o","m","e","t","h","i","n","g"," ","w","e"," ","m","u","s","t"," ","c","l","a","i","m"," ","f","o","r"," ","o","u","r","s","e","l","v","e","s",".">>,
     (* We are all part of a greater story, one that transcends our individual lives and connects us to something far more profound. *)
     <<"W","e"," ","a","r","e"," ","a","l","l"," ","p","a","r","t"," ","o","f"," ","a"," ","g","r","e","a","t","e","r"," ","s","t","o","r","y",","," ","o","n","e"," ","t","h","a","t"," ","t","r","a","n","s","c","e","n","d","s"," ","o","u","r"," ","i","n","d","i","v","i","d","u","a","l"," ","l","i","v","e","s"," ","a","n","d"," ","c","o","n","n","e","c","t","s"," ","u","s"," ","t","o"," ","s","o","m","e","t","h","i","n","g"," ","f","a","r"," ","m","o","r","e"," ","p","r","o","f","o","u","n","d",".">>,
     (* True power lies in the ability to shape the world around us, but even more so in the capacity to shape our own thoughts. *)
     <<"T","r","u","e"," ","p","o","w","e","r"," ","l","i","e","s"," ","i","n"," ","t","h","e"," ","a","b","i","l","i","t","y"," ","t","o"," ","s","h","a","p","e"," ","t","h","e"," ","w","o","r","l","d"," ","a","r","o","u","n","d"," ","u","s",","," ","b","u","t"," ","e","v","e","n"," ","m","o","r","e"," ","s","o"," ","i","n"," ","t","h","e"," ","c","a","p","a","c","i","t","y"," ","t","o"," ","s","h","a","p","e"," ","o","u","r"," ","o","w","n"," ","t","h","o","u","g","h","t","s",".">> >>

KEYWORDS ==
  { <<"r","e","a","l","i","t","y">>,
    <<"s","o","u","l">>,
    <<"w","i","s","d","o","m">>,
    <<"l","i","f","e">>,
    <<"h","u","m","a","n">>,
    <<"f","r","e","e","d","o","m">>,
    <<"p","o","w","e","r">> }

DONT_COMMENT_KEYWORD == <<"!","n","o","p","o","s","t">>

(***************************************************************************)
(* Text operations                                                         *)
(***************************************************************************)
\* str.lower() on one character
lower_char(c) ==
  IF \E i \in 1..Len(ascii_uppercase) : ascii_uppercase[i] = c
  THEN ascii_lowercase[CHOOSE i \in 1..Len(ascii_uppercase) : ascii_uppercase[i] = c]
  ELSE c

\* str.lower()
lower(text) == [i \in 1..Len(text) |-> lower_char(text[i])]

Range(s) == {s[i] : i \in 1..Len(s)}

\* str.translate(str.maketrans("", "", deleted)): drop the deleted characters
translate_delete(text, deleted) ==
  LET keep(c) == c \notin Range(deleted) IN SelectSeq(text, keep)

\* Python's `sub in text` on strings
contains(sub, text) ==
  \E i \in 0..(Len(text) - Len(sub)) : SubSeq(text, i + 1, i + Len(sub)) = sub

\* a standardize_text that lowercases and deletes nothing
standardize_text_lower_only(text) == lower(text)

standardize_text(text) == translate_delete(lower(text), punctuation)

\* a should_comment_on_comment that looks for the keywords in the lowercased
\* body without deleting the punctuation
should_comment_on_comment_raw(body) ==
  IF contains(lower(DONT_COMMENT_KEYWORD), lower(body))
  THEN FALSE
  ELSE \E keyword \in KEYWORDS : contains(keyword, lower(body))

should_comment_on_comment(body) ==
  IF contains(lower(DONT_COMMENT_KEYWORD), lower(body))
  THEN FALSE
  ELSE LET b == standardize_text(body)
       IN  \E keyword \in KEYWORDS : contains(keyword, b)

\* a should_comment_on_post that looks for the marker in the selftext only
should_comment_on_post_body_only(title, selftext) ==
  IF contains(lower(DONT_COMMENT_KEYWORD), lower(selftext))
  THEN FALSE
  ELSE LET body == standardize_text(selftext)
           ttl  == standardize_text(title)
       IN  \E keyword \in KEYWORDS : contains(keyword, body) \/ contains(keyword, ttl)

should_comment_on_post(title, selftext) ==
  IF contains(lower(DONT_COMMENT_KEYWORD), lower(selftext))
     \/ contains(lower(DONT_COMMENT_KEYWORD), lower(title))
  THEN FALSE
  ELSE LET body == standardize_text(selftext)
           ttl  == standardize_text(title)
       IN  \E keyword \in KEYWORDS : contains(keyword, body) \/ contains(keyword, ttl)

(***************************************************************************)
(* Inputs of the pure functions: texts built from fragments                *)
(***************************************************************************)
MaxFrags == 3
MaxPostFrags == 1

\* pieces of a comment body: the marker whole, in another case and in two
\* halves, keywords alone, inside a word and split by punctuation
Fragments ==
  { (* !nopost *) <<"!","n","o","p","o","s","t">>,
    (* !NoPost *) <<"!","N","o","P","o","s","t">>,
    (* !no *) <<"!","n","o">>,
    (* post *) <<"p","o","s","t">>,
    (* life *) <<"l","i","f","e">>,
    (* Reality is fragile *) <<"R","e","a","l","i","t","y"," ","i","s"," ","f","r","a","g","i","l","e">>,
    (* po-wer *) <<"p","o","-","w","e","r">>,
    (* new lifestyle tips *) <<"n","e","w"," ","l","i","f","e","s","t","y","l","e"," ","t","i","p","s">>,
    (*   *) <<" ">> }

\* further pieces for the two fields of a post
PostFragments ==
  { (* !NOPOST *) <<"!","N","O","P","O","S","T">>,
    (* soul *) <<"s","o","u","l">>,
    (* Free.dom *) <<"F","r","e","e",".","d","o","m">>,
    (* hello *) <<"h","e","l","l","o">> }

RECURSIVE Concat(_)
Concat(ss) == IF ss = <<>> THEN <<>> ELSE Head(ss) \o Concat(Tail(ss))

TextsOf(frags, n) ==
  UNION { {Concat(ss) : ss \in [1..k -> frags]} : k \in 0..n }

BodyTexts == TextsOf(Fragments, MaxFrags)
FieldTexts == TextsOf(Fragments \cup PostFragments, MaxPostFrags)


(***************************************************************************)
(* The environment: the account and the items the three feeds can deliver  *)
(***************************************************************************)
\* os.getenv("USERNAME"): the bot's account handle
USERNAME == <<"p","r","a","d","o","n">>

\* The subject line Reddit gives a username mention, as compared at line 147
USERNAME_MENTION == <<"u","s","e","r","n","a","m","e"," ","m","e","n","t","i","o","n">>

\* The f-string of write_comment around the quote
FooterPrefix == <<"\n","\n","[","^","(","s","o","u","r","c","e",")","]","(","h","t","t","p","s",":","/","/","w","w","w",".","r","e","d","d","i","t",".","c","o","m","/","u","s","e","r","/">>
FooterSuffix == <<")">>

\* Sample items.  kind is the PRAW class of the object the stream yields;
\* thing is the identity of the underlying Reddit object (m1 is comment c1
\* as it shows in the inbox).
ITEMS ==
  [ p1 |-> [kind |-> "Submission", thing |-> "p1",
            title |-> <<"R","e","a","l","i","t","y"," ","i","s"," ","f","r","a","g","i","l","e">>, selftext |-> <<>>],
    p2 |-> [kind |-> "Submission", thing |-> "p2",
            title |-> <<"m","y"," ","l","i","f","e">>, selftext |-> <<"!","N","O","P","O","S","T"," ","p","l","e","a","s","e">>],
    c1 |-> [kind |-> "Comment", thing |-> "c1",
            body |-> <<"u","/","p","r","a","d","o","n"," ","n","e","w"," ","l","i","f","e","s","t","y","l","e"," ","t","i","p","s">>],
    c2 |-> [kind |-> "Comment", thing |-> "c2",
            body |-> <<"T","h","i","s"," ","l","i","f","e","!"," ","!","n","o","p","o","s","t">>],
    m1 |-> [kind |-> "Comment", thing |-> "c1",
            subject |-> <<"U","s","e","r","n","a","m","e"," ","M","e","n","t","i","o","n">>,
            body |-> <<"u","/","p","r","a","d","o","n"," ","n","e","w"," ","l","i","f","e","s","t","y","l","e"," ","t","i","p","s">>],
    m2 |-> [kind |-> "Comment", thing |-> "c3",
            subject |-> <<"u","s","e","r","n","a","m","e"," ","m","e","n","t","i","o","n">>,
            body |-> <<"u","/","p","r","a","d","o","n"," ","!","n","o","p","o","s","t">>],
    m3 |-> [kind |-> "Comment", thing |-> "c4",
            subject |-> <<"U","s","e","r","n","a","m","e"," ","M","e","n","t","i","o","n","!">>,
            body |-> <<"h","i">>],
    m4 |-> [kind |-> "Message", thing |-> "t1",
            subject |-> <<"u","s","e","r","n","a","m","e"," ","m","e","n","t","i","o","n">>,
            body |-> <<"s","o","u","l">>],
    m5 |-> [kind |-> "Comment", thing |-> "c5",
            subject |-> <<"c","o","m","m","e","n","t"," ","r","e","p","l","y">>,
            body |-> <<"l","i","f","e">>] ]

(***************************************************************************)
(* The threads of __main__ and the bounds on what the environment does     *)
(***************************************************************************)
\* threads, in the order lines 159-161 append them and 164-165 start them
threads == <<"posts", "comments", "mentions">>
Watchers == Range(threads)

\* args= of each Thread (lines 155-157)
ThreadArgs(w) == IF w = "mentions" THEN <<>> ELSE <<"quotes">>

PostIds == {"p1", "p2"}
CommentIds == {"c1", "c2"}
InboxIds == {"m1", "m2", "m3", "m4", "m5"}

\* what each stream can yield
FeedItems(w) ==
  CASE w = "posts" -> PostIds
    [] w = "comments" -> CommentIds
    [] w = "mentions" -> InboxIds

None == "None"

\* what the environment does in one run, all feeds together: items yielded,
\* exceptions raised inside the handlers, streams that end
MaxEvents == 3

VARIABLES
  mainpc,          \* index in threads of the next thread __main__ starts
  pc,              \* pc[w]: where thread w stands
  cur,             \* cur[w]: the loop variable (comment, post, message)
  comment_string,  \* comment_string[w]: the local of write_comment
  trace,           \* trace[w]: what thread w has done, in order
  events,          \* what the environment has done so far (see MaxEvents)
  probe,           \* a pure function applied to a drawn input
  feed,            \* the subreddit's comment stream: whether it yields the
                   \* account's own comments, and which of them it holds
  db               \* the key-value store loaded at line 44

vars == <<mainpc, pc, cur, comment_string, trace, events, probe, feed, db>>

NoProbe == [fn |-> "none"]

\* number of events of kind e in a trace
CountIn(tr, e) == Cardinality({i \in 1..Len(tr) : tr[i].e = e})
\* one more thing the environment does
EnvEvent == events < MaxEvents /\ events' = events + 1

Log(w, ev) == trace' = [trace EXCEPT ![w] = Append(@, ev)]

Init ==
  /\ mainpc = 1
  /\ pc = [w \in Watchers |-> "new"]
  /\ cur = [w \in Watchers |-> None]
  /\ comment_string = [w \in Watchers |-> <<>>]
  /\ trace = [w \in Watchers |-> <<>>]
  /\ events = 0
  /\ probe = NoProbe
  /\ feed = [echo |-> FALSE, own |-> {}]
  /\ db = <<>>

(***************************************************************************)
(* __main__: start the threads one after the other; each enters            *)
(* wrapped_handler and stands at the top of `while True`.                  *)
(***************************************************************************)
\* a __main__ that joins each thread before it starts the next
StartThread_join ==
  /\ mainpc <= Len(threads)
  /\ mainpc > 1 => pc[threads[mainpc - 1]] \in {"dead", "done"}
  /\ pc' = [pc EXCEPT ![threads[mainpc]] = "loop"]
  /\ mainpc' = mainpc + 1
  /\ UNCHANGED <<cur, comment_string, trace, events, probe, feed, db>>

StartThread ==
  /\ mainpc <= Len(threads)
  /\ pc' = [pc EXCEPT ![threads[mainpc]] = "loop"]
  /\ mainpc' = mainpc + 1
  /\ UNCHANGED <<cur, comment_string, trace, events, probe, feed, db>>

(***************************************************************************)
(* restart: wrapped_handler                                                *)
(***************************************************************************)
\* a wrapped_handler without the try: the exception ends the thread
restart_except_propagates == "dead"

\* a wrapped_handler that calls the handler once instead of in a loop
restart_return_exits == "done"

\* lines 62-63: where an exception out of the handler leaves the thread:
\* `except Exception` catches it, logs, and the loop goes round
restart_except == "loop"

\* line 59: where the handler's return leaves the thread
restart_return == "loop"

\* line 61: handler(*args, **kwargs); the handler's first statements open a
\* fresh subscription (reddit.subreddit(...).stream.comments() / .submissions(),
\* reddit.inbox.stream()) and the for statement waits on it
Invoke(w) ==
  /\ pc[w] = "loop"
  /\ pc' = [pc EXCEPT ![w] = "next"]
  /\ trace' = [trace EXCEPT ![w] =
                 @ \o <<[e |-> "call", args |-> ThreadArgs(w)], [e |-> "open"]>>]
  /\ UNCHANGED <<mainpc, cur, comment_string, events, probe, feed, db>>

\* line 61 again, when opening the subscription raises
InvokeFails(w) ==
  /\ pc[w] = "loop"
  /\ EnvEvent
  /\ pc' = [pc EXCEPT ![w] = restart_except]
  /\ trace' = [trace EXCEPT ![w] =
                 @ \o <<[e |-> "call", args |-> ThreadArgs(w)],
                        [e |-> "raise", at |-> "open", item |-> None]>>]
  /\ UNCHANGED <<mainpc, cur, comment_string, probe, feed, db>>


(***************************************************************************)
(* The handlers                                                            *)
(***************************************************************************)
\* a write_comment that replies with the bare quote
CommentString_quote_only(q) == QUOTES[q]

\* lines 130-131: the text write_comment builds from QUOTES[q]
CommentString(q) == QUOTES[q] \o FooterPrefix \o USERNAME \o FooterSuffix

\* REPLIES[q] names the comment a reply made with QUOTES[q] becomes on
\* Reddit; two replies with the same text are one item to the model
REPLIES == <<"b1", "b2", "b3", "b4", "b5", "b6", "b7", "b8", "b9", "b10">>
OwnIds == Range(REPLIES)

\* comment.body / message.body of an item
Body(id) ==
  IF id \in OwnIds
  THEN CommentString(CHOOSE q \in 1..Len(REPLIES) : REPLIES[q] = id)
  ELSE ITEMS[id].body

\* the comment a reply with this text becomes
PostedAs(text) == CHOOSE id \in OwnIds : Body(id) = text

\* the items that live in the subreddit the watchers listen to
InSubreddit(id) == id \in OwnIds \/ ITEMS[id].thing \in PostIds \cup CommentIds

\* what the stream of w can yield now: other users' items and, where the
\* comment stream shows the account's own comments, the replies posted
Yields(w) ==
  FeedItems(w) \cup (IF w = "comments" /\ feed.echo THEN feed.own ELSE {})

\* a handler that pulls the next item while the reply to the last is still
\* on its way
Deliver_early(w) ==
  /\ pc[w] \in {"next", "reply"}
  /\ EnvEvent
  /\ \E id \in Yields(w) :
       /\ cur' = [cur EXCEPT ![w] = id]
       /\ Log(w, [e |-> "item", item |-> id])
  /\ pc' = [pc EXCEPT ![w] = "eval"]
  /\ comment_string' = [comment_string EXCEPT ![w] = <<>>]
  /\ UNCHANGED <<mainpc, probe, feed, db>>

\* the for statement receives the next item of the stream
Deliver(w) ==
  /\ pc[w] = "next"
  /\ EnvEvent
  /\ \E id \in Yields(w) :
       /\ cur' = [cur EXCEPT ![w] = id]
       /\ Log(w, [e |-> "item", item |-> id])
  /\ pc' = [pc EXCEPT ![w] = "eval"]
  /\ UNCHANGED <<mainpc, comment_string, probe, feed, db>>

\* the stream ends: the for statement is done and the handler returns
StreamEnds(w) ==
  /\ pc[w] = "next"
  /\ EnvEvent
  /\ pc' = [pc EXCEPT ![w] = restart_return]
  /\ cur' = [cur EXCEPT ![w] = None]
  /\ Log(w, [e |-> "return"])
  /\ UNCHANGED <<mainpc, comment_string, probe, feed, db>>

\* a mentions test without the isinstance(message, Comment)
ShouldReply_any_type(w, id) ==
  CASE w = "comments" -> should_comment_on_comment(Body(id))
    [] w = "posts" -> should_comment_on_post(ITEMS[id].title, ITEMS[id].selftext)
    [] w = "mentions" -> standardize_text(ITEMS[id].subject) = USERNAME_MENTION

\* an iterate_comments that passes over the comments of its own account
ShouldReply_not_own(w, id) ==
  CASE w = "comments" -> id \notin OwnIds /\ should_comment_on_comment(Body(id))
    [] w = "posts" -> should_comment_on_post(ITEMS[id].title, ITEMS[id].selftext)
    [] w = "mentions" ->
         /\ standardize_text(ITEMS[id].subject) = USERNAME_MENTION
         /\ ITEMS[id].kind = "Comment"

\* the condition each handler tests on its loop variable
ShouldReply(w, id) ==
  CASE w = "comments" -> should_comment_on_comment(Body(id))
    [] w = "posts" -> should_comment_on_post(ITEMS[id].title, ITEMS[id].selftext)
    [] w = "mentions" ->
         /\ standardize_text(ITEMS[id].subject) = USERNAME_MENTION
         /\ ITEMS[id].kind = "Comment"

\* the value of the test for every item a stream can yield (it depends on
\* nothing but the item)
should_comment ==
  [w \in Watchers |->
     [id \in FeedItems(w) \cup (IF w = "comments" THEN OwnIds ELSE {}) |->
        ShouldReply(w, id)]]

\* a handler that keeps track of what it replied to and passes over an item
\* it has replied to before
Skip_if_replied(w) ==
  /\ pc[w] = "eval"
  /\ \/ ~should_comment[w][cur[w]]
     \/ \E k \in 1..Len(trace[w]) :
          trace[w][k].e = "reply" /\ trace[w][k].item = cur[w]
  /\ pc' = [pc EXCEPT ![w] = "next"]
  /\ Log(w, [e |-> "verdict", item |-> cur[w], v |-> FALSE])
  /\ UNCHANGED <<mainpc, cur, comment_string, events, probe, feed, db>>

\* handlers that share a record of the comments replied to and pass over an
\* item another watcher has replied to
Skip_if_replied_elsewhere(w) ==
  /\ pc[w] = "eval"
  /\ \/ ~should_comment[w][cur[w]]
     \/ \E v \in Watchers \ {w} : \E k \in 1..Len(trace[v]) :
          /\ trace[v][k].e = "reply"
          /\ ITEMS[trace[v][k].item].thing = ITEMS[cur[w]].thing
  /\ pc' = [pc EXCEPT ![w] = "next"]
  /\ Log(w, [e |-> "verdict", item |-> cur[w], v |-> FALSE])
  /\ UNCHANGED <<mainpc, cur, comment_string, events, probe, feed, db>>

\* lines 76-77, 92-93, 146-147: the test is false and the loop goes on
Skip(w) ==
  /\ pc[w] = "eval"
  /\ ~should_comment[w][cur[w]]
  /\ pc' = [pc EXCEPT ![w] = "next"]
  /\ Log(w, [e |-> "verdict", item |-> cur[w], v |-> FALSE])
  /\ UNCHANGED <<mainpc, cur, comment_string, events, probe, feed, db>>

\* a handler that calls write_comment whatever the test says
write_comment_unconditional(w) ==
  /\ pc[w] = "eval"
  /\ \E q \in 1..Len(QUOTES) :
       comment_string' = [comment_string EXCEPT ![w] = CommentString(q)]
  /\ pc' = [pc EXCEPT ![w] = "reply"]
  /\ Log(w, [e |-> "verdict", item |-> cur[w], v |-> TRUE])
  /\ UNCHANGED <<mainpc, cur, events, probe, feed, db>>

\* the test is true: write_comment picks a quote (line 130), builds the
\* text (line 131) and calls obj.reply with it (line 132)
write_comment(w) ==
  /\ pc[w] = "eval"
  /\ should_comment[w][cur[w]]
  /\ \E q \in 1..Len(QUOTES) :
       comment_string' = [comment_string EXCEPT ![w] = CommentString(q)]
  /\ pc' = [pc EXCEPT ![w] = "reply"]
  /\ Log(w, [e |-> "verdict", item |-> cur[w], v |-> TRUE])
  /\ UNCHANGED <<mainpc, cur, events, probe, feed, db>>

\* obj.reply returns: the reply is posted (and is a comment of the
\* subreddit when the item replied to is one); then the log line, and for
\* a mention line 150 is next
Reply(w) ==
  /\ pc[w] = "reply"
  /\ pc' = [pc EXCEPT ![w] = IF w = "mentions" THEN "mark" ELSE "next"]
  /\ Log(w, [e |-> "reply", item |-> cur[w]])
  /\ feed' = IF feed.echo /\ InSubreddit(cur[w])
             THEN [feed EXCEPT !.own = @ \cup {PostedAs(comment_string[w])}]
             ELSE feed
  /\ comment_string' = [comment_string EXCEPT ![w] = <<>>]
  /\ UNCHANGED <<mainpc, cur, events, probe, db>>

\* line 150: message.mark_read()
MarkRead(w) ==
  /\ pc[w] = "mark"
  /\ pc' = [pc EXCEPT ![w] = "next"]
  /\ Log(w, [e |-> "mark", item |-> cur[w]])
  /\ UNCHANGED <<mainpc, cur, comment_string, events, probe, feed, db>>

\* the calls into PRAW that can raise once the subscription is open: pulling
\* from the stream, reading the item's fields, reply, mark_read
RaisingSteps == {"next", "eval", "reply", "mark"}

\* a handler that catches the exception itself and tries its item again
Raise_retry(w) ==
  /\ pc[w] \in RaisingSteps
  /\ EnvEvent
  /\ pc' = [pc EXCEPT ![w] = IF cur[w] = None THEN restart_except ELSE "eval"]
  /\ Log(w, [e |-> "raise", at |-> pc[w], item |-> cur[w]])
  /\ comment_string' = [comment_string EXCEPT ![w] = <<>>]
  /\ UNCHANGED <<mainpc, cur, probe, feed, db>>

\* a mentions handler that catches a failure of the reply itself and goes on
\* to mark_read
Raise_reply_caught(w) ==
  /\ pc[w] \in RaisingSteps
  /\ EnvEvent
  /\ LET caught == w = "mentions" /\ pc[w] = "reply"
     IN  /\ pc' = [pc EXCEPT ![w] = IF caught THEN "mark" ELSE restart_except]
         /\ cur' = [cur EXCEPT ![w] = IF caught THEN @ ELSE None]
  /\ Log(w, [e |-> "raise", at |-> pc[w], item |-> cur[w]])
  /\ comment_string' = [comment_string EXCEPT ![w] = <<>>]
  /\ UNCHANGED <<mainpc, probe, feed, db>>

\* an exception leaves the handler: its locals are gone
Raise(w) ==
  /\ pc[w] \in RaisingSteps
  /\ EnvEvent
  /\ pc' = [pc EXCEPT ![w] = restart_except]
  /\ Log(w, [e |-> "raise", at |-> pc[w], item |-> cur[w]])
  /\ cur' = [cur EXCEPT ![w] = None]
  /\ comment_string' = [comment_string EXCEPT ![w] = <<>>]
  /\ UNCHANGED <<mainpc, probe, feed, db>>

Step(w) ==
  \/ Invoke(w)
  \/ InvokeFails(w)
  \/ Deliver(w)
  \/ StreamEnds(w)
  \/ Skip(w)
  \/ write_comment(w)
  \/ Reply(w)
  \/ MarkRead(w)
  \/ Raise(w)

Next ==
  \/ StartThread
  \/ \E w \in Watchers : Step(w)

Spec == Init /\ [][Next]_vars

\* The program where the subreddit's comment stream also yields the comments
\* the account itself posted.  The threads share nothing, so the behaviours
\* taken are those in which, once the threads are started, the comments
\* thread alone is scheduled.
InitFeedback ==
  /\ mainpc = 1
  /\ pc = [w \in Watchers |-> "new"]
  /\ cur = [w \in Watchers |-> None]
  /\ comment_string = [w \in Watchers |-> <<>>]
  /\ trace = [w \in Watchers |-> <<>>]
  /\ events = 0
  /\ probe = NoProbe
  /\ feed = [echo |-> TRUE, own |-> {}]
  /\ db = <<>>

NextFeedback ==
  \/ StartThread
  \/ Invoke("comments")
  \/ InvokeFails("comments")
  \/ Deliver("comments")
  \/ StreamEnds("comments")
  \/ Skip("comments")
  \/ write_comment("comments")
  \/ Reply("comments")
  \/ Raise("comments")

SpecFeedback == InitFeedback /\ [][NextFeedback]_vars

(***************************************************************************)
(* The pure functions on drawn inputs                                      *)
(***************************************************************************)
InitPolicy ==
  /\ mainpc = 1
  /\ pc = [w \in Watchers |-> "new"]
  /\ cur = [w \in Watchers |-> None]
  /\ comment_string = [w \in Watchers |-> <<>>]
  /\ trace = [w \in Watchers |-> <<>>]
  /\ events = 0
  /\ feed = [echo |-> FALSE, own |-> {}]
  /\ db = <<>>
  /\ \/ \E body \in BodyTexts : probe = [fn |-> "input", args |-> <<body>>]
     \/ \E title \in FieldTexts, selftext \in FieldTexts :
          probe = [fn |-> "input", args |-> <<title, selftext>>]

ApplyCommentPolicy ==
  /\ probe.fn = "input"
  /\ Len(probe.args) = 1
  /\ probe' = [fn |-> "should_comment_on_comment", args |-> probe.args,
               ret |-> should_comment_on_comment(probe.args[1])]
  /\ UNCHANGED <<mainpc, pc, cur, comment_string, trace, events, feed, db>>

ApplyPostPolicy ==
  /\ probe.fn = "input"
  /\ Len(probe.args) = 2
  /\ probe' = [fn |-> "should_comment_on_post", args |-> probe.args,
               ret |-> should_comment_on_post(probe.args[1], probe.args[2])]
  /\ UNCHANGED <<mainpc, pc, cur, comment_string, trace, events, feed, db>>

ApplyStandardize ==
  /\ probe.fn = "input"
  /\ Len(probe.args) = 1
  /\ probe' = [fn |-> "standardize_text", args |-> probe.args,
               ret |-> standardize_text(probe.args[1])]
  /\ UNCHANGED <<mainpc, pc, cur, comment_string, trace, events, feed, db>>

NextPolicy == ApplyCommentPolicy \/ ApplyPostPolicy \/ ApplyStandardize

SpecPolicy == InitPolicy /\ [][NextPolicy]_vars

(***************************************************************************)
(* What the properties say, stated without the program's own operators     *)
(***************************************************************************)
IsUpper(c) == \E i \in 1..26 : ascii_uppercase[i] = c
IsPunctuation(c) == \E i \in 1..Len(punctuation) : punctuation[i] = c

\* the lowercase letter of a letter, the character itself otherwise
Lowercased(c) ==
  IF IsUpper(c)
  THEN LET i == CHOOSE k \in 1..26 : ascii_uppercase[k] = c IN ascii_lowercase[i]
  ELSE c

\* sub occurs in text at some position
Occurs(sub, text) ==
  \E i \in 1..(Len(text) + 1) :
    /\ i + Len(sub) - 1 <= Len(text)
    /\ \A j \in 1..Len(sub) : text[i + j - 1] = sub[j]

\* sub occurs in text at some position, in any letter case
OccursAnyCase(sub, text) ==
  \E i \in 1..(Len(text) + 1) :
    /\ i + Len(sub) - 1 <= Len(text)
    /\ \A j \in 1..Len(sub) : Lowercased(text[i + j - 1]) = Lowercased(sub[j])

\* the text lowercased with its punctuation removed, character by character
RECURSIVE Normalized(_)
Normalized(text) ==
  IF text = <<>> THEN <<>>
  ELSE IF IsPunctuation(Head(text)) THEN Normalized(Tail(text))
  ELSE <<Lowercased(Head(text))>> \o Normalized(Tail(text))

OptOutMarker == <<"!", "n", "o", "p", "o", "s", "t">>

HasMarker(text) == OccursAnyCase(OptOutMarker, text)
HasKeyword(text) == \E k \in KEYWORDS : Occurs(k, Normalized(text))

PolicyApplied == probe.fn \in {"should_comment_on_comment", "should_comment_on_post"}
ProbeFields == {probe.args[i] : i \in 1..Len(probe.args)}

(***************************************************************************)
(* C1  Opt-out precedence: when the marker "!nopost" occurs, in any letter *)
(* case, in the comment body, or in the title or the selftext of a post,   *)
(* should_comment_on_comment / should_comment_on_post returns false,       *)
(* whatever keywords the fields hold.                                      *)
(***************************************************************************)
C1_OptOutPrecedence ==
  (PolicyApplied /\ \E f \in ProbeFields : HasMarker(f)) => probe.ret = FALSE

\* a post with the marker (in capitals) in one field and a keyword in the other
C1_Witness ==
  /\ probe.fn = "should_comment_on_post"
  /\ HasMarker(probe.args[1]) /\ ~HasKeyword(probe.args[1])
  /\ HasKeyword(probe.args[2]) /\ ~HasMarker(probe.args[2])
  /\ ~Occurs(OptOutMarker, probe.args[1])
  /\ probe.ret = FALSE

(***************************************************************************)
(* C2  Keyword decision: when no field holds the marker, the policy        *)
(* returns true exactly when a keyword of KEYWORDS occurs as a substring   *)
(* of a field lowercased and stripped of punctuation; a keyword inside a   *)
(* longer word counts.                                                     *)
(***************************************************************************)
C2_KeywordDecision ==
  (PolicyApplied /\ \A f \in ProbeFields : ~HasMarker(f)) =>
    (probe.ret <=> \E f \in ProbeFields : HasKeyword(f))

\* "new lifestyle tips": true through "life" inside "lifestyle"
C2_Witness ==
  /\ probe.fn = "should_comment_on_comment"
  /\ probe.args = << <<"n","e","w"," ","l","i","f","e","s","t","y","l","e"," ","t","i","p","s">> >>
  /\ probe.ret = TRUE

(***************************************************************************)
(* Reading a thread's trace                                                *)
(***************************************************************************)
Calls(w) == CountIn(trace[w], "call")
Raises(w) == CountIn(trace[w], "raise")
Returns(w) == CountIn(trace[w], "return")

\* how the invocations of w's handler ended, in order
Outcomes(w) ==
  LET ended(ev) == ev.e \in {"raise", "return"} IN SelectSeq(trace[w], ended)

InHandler(w) == pc[w] \in {"next", "eval", "reply", "mark"}

LastIs(w, kinds) ==
  /\ trace[w] # <<>>
  /\ trace[w][Len(trace[w])].e \in kinds

(***************************************************************************)
(* C3  Supervised restart: for every N, when the handler raised on its     *)
(* first N invocations the wrapper calls it an (N+1)th time, so that a     *)
(* success on the (N+1)th invocation is reached with at least N+1 calls,   *)
(* and no exception reaches the wrapper's caller (the thread never dies    *)
(* of one).                                                                *)
(***************************************************************************)
C3_SupervisedRestart ==
  [](\A w \in Watchers : \A n \in 0..MaxEvents :
       (/\ Len(Outcomes(w)) >= n
        /\ \A i \in 1..n : Outcomes(w)[i].e = "raise") =>
         /\ pc[w] # "dead"
         /\ (Len(Outcomes(w)) = n /\ pc[w] # "new") =>
              \/ Calls(w) = n /\ pc[w] = "loop" /\ ENABLED Invoke(w)
              \/ Calls(w) = n + 1 /\ InHandler(w)
         /\ (Len(Outcomes(w)) > n /\ Outcomes(w)[n + 1].e = "return") =>
              Calls(w) >= n + 1)

\* N = 2: two invocations raised, the third returned
C3_Witness ==
  \E w \in Watchers :
    /\ Len(Outcomes(w)) = 3
    /\ Outcomes(w)[1].e = "raise" /\ Outcomes(w)[2].e = "raise"
    /\ Outcomes(w)[3].e = "return"
    /\ Calls(w) = 3

(***************************************************************************)
(* C7  Fault recovery: an exception raised at any step of a watcher        *)
(* (opening, waiting, evaluating, replying, marking read) is caught by the *)
(* wrapper; the thread is never dead; the next thing the watcher does is   *)
(* to call the handler again, which opens a fresh subscription and waits   *)
(* on it: the item in hand when the exception came is dropped, not tried   *)
(* again.                                                                  *)
(***************************************************************************)
C7_FaultRecovery ==
  \A w \in Watchers :
    /\ pc[w] # "dead"
    /\ \A i \in 1..Len(trace[w]) :
         trace[w][i].e = "raise" =>
           /\ trace[w][i].at \in {"open", "next", "eval", "reply", "mark"}
           /\ i = Len(trace[w]) =>
                /\ pc[w] = "loop" /\ ENABLED Invoke(w)
                /\ cur[w] = None /\ comment_string[w] = <<>>
           /\ i < Len(trace[w]) => trace[w][i + 1].e = "call"
           /\ i + 2 <= Len(trace[w]) =>
                \/ trace[w][i + 2].e = "open"
                \/ trace[w][i + 2].e = "raise" /\ trace[w][i + 2].at = "open"
           /\ (i + 3 <= Len(trace[w]) /\ trace[w][i + 2].e = "open") =>
                \/ trace[w][i + 3].e \in {"item", "return"}
                \/ trace[w][i + 3].e = "raise" /\ trace[w][i + 3].at = "next"

\* mark_read raised on m1; the watcher is back on a fresh subscription and
\* has received an item from it
C7_Witness ==
  \E i \in 1..Len(trace["mentions"]) :
    /\ trace["mentions"][i].e = "raise"
    /\ trace["mentions"][i].at = "mark"
    /\ trace["mentions"][i].item = "m1"
    /\ i + 3 <= Len(trace["mentions"])
    /\ trace["mentions"][i + 2].e = "open"
    /\ trace["mentions"][i + 3].e = "item"

(***************************************************************************)
(* C8  The supervisor never returns: after every invocation of the         *)
(* handler, one that raised and one that returned alike, the wrapper calls *)
(* the handler again with the same arguments; the thread is never in a     *)
(* terminated state, and every ended invocation is followed by a further   *)
(* one.                                                                    *)
(***************************************************************************)
C8_NeverReturns ==
  [](\A w \in Watchers :
       /\ pc[w] \notin {"dead", "done"}
       /\ \A i \in 1..Len(trace[w]) :
            /\ trace[w][i].e = "call" => trace[w][i].args = ThreadArgs(w)
            /\ (trace[w][i].e \in {"raise", "return"} /\ i < Len(trace[w])) =>
                 trace[w][i + 1].e = "call"
       /\ LastIs(w, {"raise", "return"}) => pc[w] = "loop" /\ ENABLED Invoke(w)
       /\ Calls(w) = Raises(w) + Returns(w) + (IF InHandler(w) THEN 1 ELSE 0))

\* a return and a raise, each followed by a further call
C8_Witness ==
  \E w \in Watchers :
    /\ Returns(w) >= 1 /\ Raises(w) >= 1
    /\ Calls(w) = 3
    /\ InHandler(w)

(***************************************************************************)
(* Reading what happened to one delivered item                             *)
(***************************************************************************)
ItemAt(w, i) == trace[w][i].e = "item"

\* the events of the item delivered at i run up to the next delivery, or to
\* the next call of the handler
SegEnd(w, i) ==
  LET later == {j \in (i + 1)..Len(trace[w]) : trace[w][j].e \in {"item", "call"}}
  IN  IF later = {} THEN Len(trace[w]) + 1
      ELSE CHOOSE j \in later : \A k \in later : j <= k

Seg(w, i) == (i + 1)..(SegEnd(w, i) - 1)

InProgress(w, i) == SegEnd(w, i) = Len(trace[w]) + 1 /\ pc[w] \in {"eval", "reply", "mark"}

RepliesTo(w, i) == {k \in Seg(w, i) : trace[w][k].e = "reply"}
MarksOf(w, i) == {k \in Seg(w, i) : trace[w][k].e = "mark"}

\* calls of obj.reply for the item delivered at i: returned, raised, under way
Attempts(w, i) ==
  Cardinality({k \in Seg(w, i) :
                 \/ trace[w][k].e = "reply"
                 \/ trace[w][k].e = "raise" /\ trace[w][k].at = "reply"})
    + (IF InProgress(w, i) /\ pc[w] = "reply" THEN 1 ELSE 0)

\* the handler's test on the item delivered at i was carried out
Tested(w, i) ==
  /\ ~(InProgress(w, i) /\ pc[w] = "eval")
  /\ ~\E k \in Seg(w, i) : trace[w][k].e = "raise" /\ trace[w][k].at = "eval"

\* the raw text fields of an item
SourceFields(id) ==
  IF ITEMS[id].kind = "Submission"
  THEN {ITEMS[id].title, ITEMS[id].selftext}
  ELSE {ITEMS[id].body}

OptedOut == {id \in DOMAIN ITEMS : \E f \in SourceFields(id) : HasMarker(f)}

(***************************************************************************)
(* C4  Opt-out suppresses every response: no watcher (posts, comments,     *)
(* mentions) issues a reply to an item whose source text holds the marker  *)
(* "!nopost"; in particular the mentions watcher issues none to an         *)
(* eligible mention whose body holds it.                                   *)
(***************************************************************************)
C4_OptOutSuppressesEveryReply ==
  \A w \in Watchers : \A i \in 1..Len(trace[w]) :
    trace[w][i].e = "reply" => trace[w][i].item \notin OptedOut

SameAnyCase(a, b) ==
  /\ Len(a) = Len(b)
  /\ \A j \in 1..Len(a) : Lowercased(a[j]) = Lowercased(b[j])

MentionSubject == <<"U","s","e","r","n","a","m","e"," ","M","e","n","t","i","o","n">>

EligibleAsClaimed ==
  {id \in InboxIds :
     SameAnyCase(ITEMS[id].subject, MentionSubject) /\ ITEMS[id].kind = "Comment"}

EligibleNormalized ==
  {id \in InboxIds :
     /\ Normalized(ITEMS[id].subject) = Normalized(MentionSubject)
     /\ ITEMS[id].kind = "Comment"}

WithKeyword == {id \in InboxIds : HasKeyword(ITEMS[id].body)}

MentionsReplyIff(eligible) ==
  \A i \in 1..Len(trace["mentions"]) :
    ItemAt("mentions", i) =>
      LET id == trace["mentions"][i].item
          attempts == Attempts("mentions", i)
      IN  /\ attempts <= 1
          /\ (id \in eligible /\ Tested("mentions", i)) => attempts = 1
          /\ id \notin eligible =>
               /\ attempts = 0
               /\ MarksOf("mentions", i) = {}

(***************************************************************************)
(* C5  Mentions eligibility, as claimed: the mentions watcher replies to   *)
(* an inbox item exactly when its subject is "Username Mention" in any     *)
(* letter case and it is a comment; an item with any other subject gets no *)
(* reply and is not marked read, even if its text holds a keyword.         *)
(***************************************************************************)
C5_MentionsEligibility == MentionsReplyIff(EligibleAsClaimed)

(***************************************************************************)
(* C5  Mentions eligibility, amended: the mentions watcher replies to an   *)
(* inbox item exactly when its subject, lowercased and with its            *)
(* punctuation removed, is "username mention" and it is a comment; any     *)
(* other item gets no reply and is not marked read, even if its text holds *)
(* a keyword.                                                              *)
(***************************************************************************)
C5_MentionsEligibilityNormalized == MentionsReplyIff(EligibleNormalized)

\* m5 (subject "comment reply", body "life") was passed over; m3 (subject
\* "Username Mention!") was replied to and marked read
C5_Witness ==
  \E i, j \in 1..Len(trace["mentions"]) :
    /\ ItemAt("mentions", i) /\ trace["mentions"][i].item = "m5"
    /\ "m5" \in WithKeyword
    /\ Attempts("mentions", i) = 0 /\ ~InProgress("mentions", i)
    /\ ItemAt("mentions", j) /\ trace["mentions"][j].item = "m3"
    /\ RepliesTo("mentions", j) # {} /\ MarksOf("mentions", j) # {}

\* the items the trigger policy returns true for
Triggering ==
  {id \in CommentIds : should_comment_on_comment(ITEMS[id].body)}
    \cup {id \in PostIds : should_comment_on_post(ITEMS[id].title, ITEMS[id].selftext)}

(***************************************************************************)
(* C6  Reply only on trigger: in the posts and the comments watcher, an    *)
(* item the policy is true of gets exactly one call of reply, an item it   *)
(* is false of gets none and nothing else done to it; the watcher is then  *)
(* back waiting for the next item.                                         *)
(***************************************************************************)
C6_ReplyOnlyOnTrigger ==
  \A w \in {"posts", "comments"} : \A i \in 1..Len(trace[w]) :
    ItemAt(w, i) =>
      LET id == trace[w][i].item
          attempts == Attempts(w, i)
      IN  /\ attempts <= 1
          /\ (id \in Triggering /\ Tested(w, i)) => attempts = 1
          /\ id \notin Triggering =>
               /\ attempts = 0
               /\ \A k \in Seg(w, i) : trace[w][k].e \notin {"reply", "mark"}
          /\ (/\ i + 1 <= Len(trace[w])
              /\ LastIs(w, IF id \in Triggering THEN {"reply"} ELSE {"verdict"})
              /\ SegEnd(w, i) = Len(trace[w]) + 1) => pc[w] = "next"

\* c1 was replied to once, c2 (keyword and marker) not at all, and the
\* comments watcher waits for the next item
C6_Witness ==
  \E i, j \in 1..Len(trace["comments"]) :
    /\ i < j
    /\ ItemAt("comments", i) /\ trace["comments"][i].item = "c1"
    /\ Cardinality(RepliesTo("comments", i)) = 1
    /\ ItemAt("comments", j) /\ trace["comments"][j].item = "c2"
    /\ Attempts("comments", j) = 0
    /\ pc["comments"] = "next"

Local(w) == <<pc[w], cur[w], comment_string[w], trace[w]>>

CanGoOn(w) ==
  /\ pc[w] = "new" => ENABLED StartThread
  /\ pc[w] = "loop" => ENABLED Invoke(w)
  /\ (pc[w] = "next" /\ events < MaxEvents) => ENABLED Deliver(w)
  /\ pc[w] = "eval" => ENABLED (Skip(w) \/ write_comment(w))
  /\ pc[w] = "reply" => ENABLED Reply(w)
  /\ pc[w] = "mark" => ENABLED MarkRead(w)
  /\ pc[w] \in {"new", "loop", "next", "eval", "reply", "mark"}

OneThreadAtATime ==
  \A w \in Watchers :
    Local(w)' # Local(w) => \A v \in Watchers \ {w} : Local(v)' = Local(v)

(***************************************************************************)
(* C9  Watcher isolation: whatever the other two threads are doing         *)
(* (waiting on a feed that delivers nothing, raising and restarting over   *)
(* and over), a thread's own next step is open to it: it is started, calls *)
(* its handler, receives the item its feed delivers, tests it, replies and *)
(* marks it read; and no step of one thread changes anything of another.   *)
(***************************************************************************)
C9_WatcherIsolation ==
  /\ [](\A w \in Watchers : CanGoOn(w))
  /\ [][OneThreadAtATime]_vars

\* the posts watcher waits on its feed, the comments watcher has failed
\* twice and is restarting, and the mentions watcher has replied to m1
C9_Witness ==
  /\ pc["posts"] = "next" /\ Calls("posts") = 1
  /\ Raises("comments") = 2 /\ pc["comments"] = "loop"
  /\ \E i \in 1..Len(trace["mentions"]) :
       trace["mentions"][i].e = "reply" /\ trace["mentions"][i].item = "m1"

\* what may come right before each event of a handler
InOrder(w, i) ==
  LET ev == trace[w][i]
      prev == trace[w][i - 1]
  IN  CASE ev.e = "item" ->
             \/ prev.e = "open"
             \/ prev.e = "verdict" /\ ~prev.v
             \/ prev.e = "reply" /\ w # "mentions"
             \/ prev.e = "mark"
        [] ev.e = "verdict" -> prev.e = "item" /\ prev.item = ev.item
        [] ev.e = "reply" -> prev.e = "verdict" /\ prev.v /\ prev.item = ev.item
        [] ev.e = "mark" -> prev.e = "reply" /\ prev.item = ev.item /\ w = "mentions"
        [] OTHER -> TRUE

\* the items of the events of one kind in trace[w][from..to], in order
RECURSIVE ItemsOf(_, _, _, _)
ItemsOf(w, kind, from, to) ==
  IF from > to THEN <<>>
  ELSE (IF trace[w][from].e = kind THEN <<trace[w][from].item>> ELSE <<>>)
         \o ItemsOf(w, kind, from + 1, to)

RECURSIVE IsSubsequence(_, _)
IsSubsequence(a, b) ==
  IF a = <<>> THEN TRUE
  ELSE IF b = <<>> THEN FALSE
  ELSE IF Head(a) = Head(b) THEN IsSubsequence(Tail(a), Tail(b))
  ELSE IsSubsequence(a, Tail(b))

\* a subscription opened at o runs to the next call of the handler
SubscriptionEnd(w, o) ==
  LET later == {j \in (o + 1)..Len(trace[w]) : trace[w][j].e = "call"}
  IN  IF later = {} THEN Len(trace[w])
      ELSE (CHOOSE j \in later : \A k \in later : j <= k) - 1

(***************************************************************************)
(* C10  Processing order within one stream: within one subscription the    *)
(* items are tested in the order the stream yields them, and the reply to  *)
(* an item (and, for a mention, its mark-as-read) comes before the next    *)
(* item is pulled; so the replies of a subscription are a subsequence of   *)
(* its deliveries, in the same order.                                      *)
(***************************************************************************)
C10_ProcessingOrder ==
  \A w \in Watchers : \A i \in 1..Len(trace[w]) :
    /\ i > 1 => InOrder(w, i)
    /\ trace[w][i].e = "open" =>
         LET end == SubscriptionEnd(w, i)
             replies == ItemsOf(w, "reply", i, end)
         IN  /\ IsSubsequence(replies, ItemsOf(w, "item", i, end))
             /\ IsSubsequence(ItemsOf(w, "mark", i, end), replies)

\* one subscription of the mentions watcher: m5 passed over, m1 replied to
\* and marked read before m2 was pulled and replied to
C10_Witness ==
  /\ Calls("mentions") = 1
  /\ ItemsOf("mentions", "item", 1, Len(trace["mentions"])) = <<"m5", "m1", "m2">>
  /\ ItemsOf("mentions", "reply", 1, Len(trace["mentions"])) = <<"m1", "m2">>
  /\ ItemsOf("mentions", "mark", 1, Len(trace["mentions"])) = <<"m1">>

\* the failures of obj.reply while the item delivered at i was handled
ReplyFailures(w, i) ==
  {k \in Seg(w, i) : trace[w][k].e = "raise" /\ trace[w][k].at = "reply"}

(***************************************************************************)
(* C11  Mark-as-read follows the response: in the mentions watcher every   *)
(* mark_read of an item comes after a reply to that same item that         *)
(* returned; an item whose reply failed is not marked read, and an item    *)
(* that was not replied to is never marked read.                           *)
(***************************************************************************)
C11_MarkFollowsReply ==
  \A i \in 1..Len(trace["mentions"]) :
    ItemAt("mentions", i) =>
      /\ \A k \in MarksOf("mentions", i) :
            /\ trace["mentions"][k].item = trace["mentions"][i].item
            /\ \E r \in RepliesTo("mentions", i) :
                  r < k /\ trace["mentions"][r].item = trace["mentions"][k].item
      /\ ReplyFailures("mentions", i) # {} => MarksOf("mentions", i) = {}
      /\ RepliesTo("mentions", i) = {} => MarksOf("mentions", i) = {}

\* m1 was replied to and then marked read; the reply to m2 failed and m2 was
\* not marked read
C11_Witness ==
  \E i, j \in 1..Len(trace["mentions"]) :
    /\ ItemAt("mentions", i) /\ trace["mentions"][i].item = "m1"
    /\ RepliesTo("mentions", i) # {} /\ MarksOf("mentions", i) # {}
    /\ ItemAt("mentions", j) /\ trace["mentions"][j].item = "m2"
    /\ ReplyFailures("mentions", j) # {} /\ MarksOf("mentions", j) = {}
    /\ pc["mentions"] = "loop"

\* the characters of a text that are not punctuation, in order
RECURSIVE Unpunctuated(_)
Unpunctuated(text) ==
  IF text = <<>> THEN <<>>
  ELSE (IF IsPunctuation(Head(text)) THEN <<>> ELSE <<Head(text)>>)
         \o Unpunctuated(Tail(text))

(***************************************************************************)
(* C12  Text normalization: for every input text, the empty one included,  *)
(* standardize_text returns the lowercased input with every punctuation    *)
(* character removed and all other characters kept in order; the output    *)
(* holds no punctuation character, and normalizing the output again gives  *)
(* the output.                                                             *)
(***************************************************************************)
C12_TextNormalization ==
  probe.fn = "standardize_text" =>
    LET text == probe.args[1]
        kept == Unpunctuated(text)
    IN  /\ Len(probe.ret) = Len(kept)
        /\ \A i \in 1..Len(kept) : probe.ret[i] = Lowercased(kept[i])
        /\ \A i \in 1..Len(probe.ret) : ~IsPunctuation(probe.ret[i])
        /\ standardize_text(probe.ret) = probe.ret
        /\ text = <<>> => probe.ret = <<>>

\* "!NoPost po-wer": upper case and punctuation in, "nopost power" out
C12_Witness ==
  /\ probe.fn = "standardize_text"
  /\ probe.args[1] = <<"!","N","o","P","o","s","t"," ","p","o","-","w","e","r">>
  /\ probe.ret = <<"n","o","p","o","s","t"," ","p","o","w","e","r">>

\* the footer as it reads for the account pradon: two newlines, then
\* [^(source)](https://www.reddit.com/user/pradon)
AttributionFooter == <<"\n","\n","[","^","(","s","o","u","r","c","e",")","]","(","h","t","t","p","s",":","/","/","w","w","w",".","r","e","d","d","i","t",".","c","o","m","/","u","s","e","r","/","p","r","a","d","o","n",")">>

AccountHandle == <<"p","r","a","d","o","n">>

FooterNamesAccount == Occurs(AccountHandle, AttributionFooter)

\* the quotes that occur in a text
QuotesIn(text) == {q \in 1..Len(QUOTES) : Occurs(QUOTES[q], text)}

\* the texts made of exactly one quote and the footer after it
WellComposed ==
  {text \in {QUOTES[q] \o AttributionFooter : q \in 1..Len(QUOTES)} :
     Cardinality(QuotesIn(text)) = 1}

(***************************************************************************)
(* C13  Reply composition: the text every watcher hands to obj.reply is    *)
(* exactly one quote of the fixed, non-empty quote list followed by the    *)
(* fixed attribution footer, which names the bot's account; the quote list *)
(* and the keyword set are the same in every state.                        *)
(***************************************************************************)
C13_ReplyComposition ==
  /\ Len(QUOTES) > 0
  /\ FooterNamesAccount
  /\ \A w \in Watchers : pc[w] = "reply" => comment_string[w] \in WellComposed

\* the posts watcher is calling reply on p1 with the eighth quote and the
\* footer
C13_Witness ==
  /\ pc["posts"] = "reply" /\ cur["posts"] = "p1"
  /\ comment_string["posts"] = QUOTES[8] \o AttributionFooter
  /\ Len(comment_string["posts"]) > Len(QUOTES[8])

\* the quotes a keyword occurs in, in any letter case
KeywordQuotes ==
  {q \in 1..Len(QUOTES) : \E k \in KEYWORDS : OccursAnyCase(k, QUOTES[q])}

\* the policy is true of every reply text made with such a quote
SelfTriggers ==
  \A q \in KeywordQuotes : should_comment_on_comment(QUOTES[q] \o AttributionFooter)

SevenOfTen == Len(QUOTES) = 10 /\ Cardinality(KeywordQuotes) = 7

FooterWithoutMarker == ~HasMarker(AttributionFooter)

\* the account's own comments made with such a quote
OwnWithKeyword == {REPLIES[q] : q \in KeywordQuotes}

Replies(w) == CountIn(trace[w], "reply")

(***************************************************************************)
(* C14  Self-triggering: seven of the ten quotes hold a keyword, the       *)
(* footer holds no opt-out marker, and the policy is true of every reply   *)
(* text made with one of the seven; iterate_comments has no author check,  *)
(* so where the comment stream yields the account's own replies, each such *)
(* reply that is delivered and tested is replied to in turn, and that      *)
(* reply is again a comment of the stream: nothing in the program ends the *)
(* chain.                                                                  *)
(***************************************************************************)
C14_SelfTriggering ==
  /\ SevenOfTen
  /\ FooterWithoutMarker
  /\ SelfTriggers
  /\ \A i \in 1..Len(trace["comments"]) :
       (ItemAt("comments", i) /\ trace["comments"][i].item \in OwnWithKeyword) =>
         /\ Attempts("comments", i) <= 1
         /\ Tested("comments", i) => Attempts("comments", i) = 1
  /\ \A i \in 1..Len(trace["comments"]) :
       (ItemAt("comments", i) /\ trace["comments"][i].item \in OwnIds) =>
         trace["comments"][i].item \in feed.own
  /\ (feed.echo /\ Replies("comments") > 0) => feed.own # {}
  /\ Cardinality(feed.own) <= Replies("comments")

\* a chain of three: the comments watcher replied to c1, then to its own
\* reply to c1 (made with the first quote), then to its reply to that one
\* (made with the fifth); no other watcher has replied to anything
C14_Witness ==
  /\ feed.echo
  /\ ItemsOf("comments", "item", 1, Len(trace["comments"])) = <<"c1", "b1", "b5">>
  /\ ItemsOf("comments", "reply", 1, Len(trace["comments"])) = <<"c1", "b1", "b5">>
  /\ Replies("posts") = 0 /\ Replies("mentions") = 0
  /\ {"b1", "b5"} \subseteq feed.own

\* the items each handler's test is true of, by their text alone
Replying == Triggering \cup EligibleNormalized

\* the reply to the item delivered at i was called and has not failed
Handled(w, i) ==
  /\ Tested(w, i)
  /\ ReplyFailures(w, i) = {}
  /\ ~(InProgress(w, i) /\ pc[w] = "reply")

RepliesToItem(w, id) ==
  Cardinality({k \in 1..Len(trace[w]) :
                 trace[w][k].e = "reply" /\ trace[w][k].item = id})

DeliveriesOf(w, id) ==
  {i \in 1..Len(trace[w]) : ItemAt(w, i) /\ trace[w][i].item = id}

(***************************************************************************)
(* C15  No deduplication across restarts: the key-value store is never     *)
(* written or read, so whether a watcher replies depends on the text of    *)
(* the delivered item alone; an item that a fresh subscription delivers    *)
(* again after a restart is replied to again, and the replies a watcher    *)
(* made to an item are as many as the deliveries of that item whose test   *)
(* was true and whose reply did not fail.                                  *)
(***************************************************************************)
C15_NoDeduplication ==
  /\ [][db' = db]_vars
  /\ [](\A w \in Watchers : \A id \in FeedItems(w) :
          RepliesToItem(w, id) =
            Cardinality({i \in DeliveriesOf(w, id) :
                           id \in Replying /\ Handled(w, i)}))

\* the comments watcher replied to c1, was restarted by an exception, and
\* replied to c1 again when the fresh subscription delivered it again
C15_Witness ==
  /\ Calls("comments") = 2 /\ Raises("comments") = 1
  /\ \E i, j \in DeliveriesOf("comments", "c1") :
       /\ i < j
       /\ \E c \in (i + 1)..(j - 1) : trace["comments"][c].e = "call"
       /\ RepliesTo("comments", i) # {} /\ RepliesTo("comments", j) # {}
  /\ RepliesToItem("comments", "c1") = 2

\* a comment of the stream with a keyword and no marker that is also in the
\* inbox as a username mention: <<comment, inbox item>>
SeenTwice ==
  {cm \in CommentIds \X InboxIds :
     /\ ITEMS[cm[1]].thing = ITEMS[cm[2]].thing
     /\ cm[1] \in Triggering
     /\ cm[2] \in EligibleNormalized}

\* both watchers are in the call of obj.reply for the same comment
BothReplying(cm) ==
  /\ pc["comments"] = "reply" /\ cur["comments"] = cm[1]
  /\ pc["mentions"] = "reply" /\ cur["mentions"] = cm[2]

(***************************************************************************)
(* C16  Double reply across watchers: a comment that the comment stream    *)
(* delivers (keyword, no marker) and the inbox delivers as a username      *)
(* mention is replied to by the comments watcher and by the mentions       *)
(* watcher, each whatever the other has done: every delivery of it to      *)
(* either watcher whose reply does not fail ends in a reply, so it gets    *)
(* one reply from each; and when both are about to reply, either may go    *)
(* first.                                                                  *)
(***************************************************************************)
C16_DoubleReply ==
  /\ SeenTwice # {}
  /\ \A cm \in SeenTwice :
       /\ \A i \in DeliveriesOf("comments", cm[1]) :
             Handled("comments", i) => Cardinality(RepliesTo("comments", i)) = 1
       /\ \A j \in DeliveriesOf("mentions", cm[2]) :
             Handled("mentions", j) => Cardinality(RepliesTo("mentions", j)) = 1
       /\ (pc["comments"] = "eval" /\ cur["comments"] = cm[1]) =>
             ENABLED write_comment("comments")
       /\ (pc["mentions"] = "eval" /\ cur["mentions"] = cm[2]) =>
             ENABLED write_comment("mentions")
       /\ BothReplying(cm) =>
             ENABLED Reply("comments") /\ ENABLED Reply("mentions")

\* comment c1 has two replies: one by the comments watcher, which got it
\* from the comment stream, one by the mentions watcher, which got it as m1
C16_Witness ==
  /\ <<"c1", "m1">> \in SeenTwice
  /\ RepliesToItem("comments", "c1") = 1
  /\ RepliesToItem("mentions", "m1") = 1
  /\ Cardinality(DeliveriesOf("comments", "c1")) = 1
  /\ Cardinality(DeliveriesOf("mentions", "m1")) = 1

====
